---- MODULE Spec2Model ----
(***************************************************************************)
(* Model of main.py: a FastAPI service with two endpoints, /transcript     *)
(* and /transcripts, guarded by the get_api_key dependency.                *)
(*                                                                         *)
(* Strings that the code builds (timestamps, lines, the joined body) are   *)
(* sequences of one-character strings.  Times are exact rationals in       *)
(* milliseconds: a time is [num, den] and stands for num/den ms.  The code *)
(* computes them in IEEE doubles; rounding of doubles is not modelled.     *)
(***************************************************************************)
EXTENDS Integers, Sequences, FiniteSets, TLC

VARIABLES API_KEY, req, loop, transcript, fmt_pc, word_level_transcript,
          word_times, formatted_transcript

vars == <<API_KEY, req, loop, transcript, fmt_pc, word_level_transcript,
          word_times, formatted_transcript>>

srv_vars == <<API_KEY, req, loop>>

fmt_vars == <<transcript, fmt_pc, word_level_transcript, word_times,
              formatted_transcript>>

(***************************************************************************)
(* Bounds.                                                                 *)
(***************************************************************************)
MaxSegments == 2

NumRequests == 2

None == "None"

(***************************************************************************)
(* str.split(): words are the maximal runs of non-whitespace characters.   *)
(***************************************************************************)
Whitespace == {" ", "\t", "\n"}

RECURSIVE SplitFrom(_, _, _)
SplitFrom(text, i, cur) ==
    IF i > Len(text)
    THEN IF cur = <<>> THEN <<>> ELSE <<cur>>
    ELSE IF text[i] \in Whitespace
         THEN (IF cur = <<>> THEN <<>> ELSE <<cur>>) \o SplitFrom(text, i + 1, <<>>)
         ELSE SplitFrom(text, i + 1, Append(cur, text[i]))

split(text) == SplitFrom(text, 1, <<>>)

(***************************************************************************)
(* Python's format spec 0<width>d: decimal digits, a leading minus sign,   *)
(* zeros between the sign and the digits up to the width.                  *)
(***************************************************************************)
DigitChar(d) == <<"0", "1", "2", "3", "4", "5", "6", "7", "8", "9">>[d + 1]

RECURSIVE ToDec(_)
ToDec(n) ==
    IF n < 10 THEN <<DigitChar(n)>>
    ELSE ToDec(n \div 10) \o <<DigitChar(n % 10)>>

Zeros(k) == [j \in 1..k |-> "0"]

FormatD(n, width) ==
    LET sign == IF n < 0 THEN <<"-">> ELSE <<>>
        digits == ToDec(IF n < 0 THEN 0 - n ELSE n)
    IN  sign \o Zeros(width - Len(sign) - Len(digits)) \o digits

(***************************************************************************)
(* A segment is a function with the keys text and start, and usually       *)
(* duration; segment.get('duration', 0).                                   *)
(***************************************************************************)
segment_duration(segment) ==
    IF "duration" \in DOMAIN segment THEN segment["duration"] ELSE 0

(***************************************************************************)
(* time_per_word = segment_duration / len(words) if words else 0.          *)
(* A division by zero raises; the result says so.                          *)
(***************************************************************************)
Divide(a, b) ==
    IF b = 0 THEN [raised |-> TRUE, num |-> 0, den |-> 1]
    ELSE [raised |-> FALSE, num |-> a, den |-> b]

\* The division without the "if words" guard.
time_per_word_unguarded(segment, words) ==
    Divide(segment_duration(segment), Len(words))

time_per_word(segment, words) ==
    IF words # <<>> THEN Divide(segment_duration(segment), Len(words))
    ELSE [raised |-> FALSE, num |-> 0, den |-> 1]

(***************************************************************************)
(* word_time = start_time + (i * time_per_word), i counted from 0.         *)
(***************************************************************************)
\* The words counted from 1 instead of 0.
word_time_from_one(segment, tpw, i) ==
    [num |-> segment["start"] * tpw.den + (i + 1) * tpw.num, den |-> tpw.den]

word_time(segment, tpw, i) ==
    [num |-> segment["start"] * tpw.den + i * tpw.num, den |-> tpw.den]

(***************************************************************************)
(* f"[{int(word_time//60):02d}:{int(word_time%60):02d}.                    *)
(*    {int((word_time%1)*1000):03d}]", word_time in seconds.               *)
(***************************************************************************)
Minutes(wt) == wt.num \div (60000 * wt.den)

Seconds(wt) == (wt.num % (60000 * wt.den)) \div (1000 * wt.den)

\* The milliseconds rounded to nearest instead of truncated.
Millis_rounded(wt) == ((wt.num % (1000 * wt.den)) * 2 + wt.den) \div (2 * wt.den)

Millis(wt) == (wt.num % (1000 * wt.den)) \div wt.den

formatted_time(wt) ==
    <<"[">> \o FormatD(Minutes(wt), 2) \o <<":">> \o FormatD(Seconds(wt), 2)
        \o <<".">> \o FormatD(Millis(wt), 3) \o <<"]">>

(***************************************************************************)
(* The body of the loop over one segment: the lines it appends and the     *)
(* word times it computed, or raised.                                      *)
(***************************************************************************)
SegmentLines(segment) ==
    LET words == split(segment["text"])
        tpw == time_per_word(segment, words)
    IN  IF tpw.raised
        THEN [raised |-> TRUE, lines |-> <<>>, times |-> <<>>]
        ELSE [raised |-> FALSE,
              lines |-> [k \in 1..Len(words) |->
                            formatted_time(word_time(segment, tpw, k - 1))
                                \o <<" ">> \o words[k]],
              times |-> [k \in 1..Len(words) |-> word_time(segment, tpw, k - 1)]]

(***************************************************************************)
(* for segment in transcript: ... word_level_transcript.append(...)        *)
(***************************************************************************)
RECURSIVE WordLevel(_, _)
WordLevel(t, k) ==
    IF k > Len(t) THEN [raised |-> FALSE, lines |-> <<>>, times |-> <<>>]
    ELSE LET head == SegmentLines(t[k])
             rest == WordLevel(t, k + 1)
         IN  IF head.raised \/ rest.raised
             THEN [raised |-> TRUE, lines |-> <<>>, times |-> <<>>]
             ELSE [raised |-> FALSE,
                   lines |-> head.lines \o rest.lines,
                   times |-> head.times \o rest.times]

(***************************************************************************)
(* "\n".join(word_level_transcript)                                        *)
(***************************************************************************)
RECURSIVE Join(_, _)
Join(lines, k) ==
    IF k > Len(lines) THEN <<>>
    ELSE IF k = Len(lines) THEN lines[k]
         ELSE lines[k] \o <<"\n">> \o Join(lines, k + 1)

(***************************************************************************)
(* Inputs of the formatting specification: the segments the collaborator   *)
(* may return.                                                             *)
(***************************************************************************)
HelloWorld == <<"h", "e", "l", "l", "o", " ", "w", "o", "r", "l", "d">>

HelloTranscript == <<[text |-> HelloWorld, start |-> 0, duration |-> 2000]>>

HelloOutput ==
    <<"[", "0", "0", ":", "0", "0", ".", "0", "0", "0", "]", " ",
      "h", "e", "l", "l", "o", "\n",
      "[", "0", "0", ":", "0", "1", ".", "0", "0", "0", "]", " ",
      "w", "o", "r", "l", "d">>

Texts == { <<>>,
           <<" ", "\t">>,
           <<"a">>,
           <<" ", "a", "\t", "b", "b", " ", " ", "c", "\n">>,
           HelloWorld }

Starts == {0, 59500, 5999500}

Durations == {2000, -1000}

Segments ==
    [text : Texts, start : Starts, duration : Durations]
        \cup [text : Texts, start : Starts]

RECURSIVE SeqsUpTo(_, _)
SeqsUpTo(S, n) ==
    IF n = 0 THEN {<<>>}
    ELSE LET shorter == SeqsUpTo(S, n - 1)
         IN  shorter \cup {Append(q, x) : q \in {p \in shorter : Len(p) = n - 1}, x \in S}

Transcripts == SeqsUpTo(Segments, MaxSegments)

(***************************************************************************)
(* The server's state while the formatting specification runs, and the     *)
(* formatter's state while the server specification runs.                  *)
(***************************************************************************)
Requests == 1..NumRequests

\* retrieved and raised record what the collaborator answered and which
\* exception left the try block; they are read by the properties only.
NoOutcome == [kind |-> None, value |-> <<>>, description |-> None]

IdleRequest ==
    [pc |-> "idle", endpoint |-> None, header |-> None, video_id |-> <<>>,
     format |-> None, calls |-> 0, retrieved |-> NoOutcome, raised |-> NoOutcome,
     responses |-> <<>>]

SrvIdle ==
    /\ API_KEY = None
    /\ req = [r \in Requests |-> IdleRequest]
    /\ loop = 0

FmtIdle ==
    /\ transcript = <<>>
    /\ fmt_pc = "off"
    /\ word_level_transcript = <<>>
    /\ word_times = <<>>
    /\ formatted_transcript = <<>>

(***************************************************************************)
(* The TEXT branch of get_transcript on its own: lines 84-98.              *)
(***************************************************************************)
InitFmt ==
    /\ SrvIdle
    /\ transcript \in Transcripts
    /\ fmt_pc = "start"
    /\ word_level_transcript = <<>>
    /\ word_times = <<>>
    /\ formatted_transcript = <<>>

BuildWordLevel ==
    /\ fmt_pc = "start"
    /\ LET res == WordLevel(transcript, 1)
       IN  /\ fmt_pc' = IF res.raised THEN "raised" ELSE "built"
           /\ word_level_transcript' = res.lines
           /\ word_times' = res.times
    /\ UNCHANGED <<transcript, formatted_transcript, srv_vars>>

JoinLines ==
    /\ fmt_pc = "built"
    /\ formatted_transcript' = Join(word_level_transcript, 1)
    /\ fmt_pc' = "joined"
    /\ UNCHANGED <<transcript, word_level_transcript, word_times, srv_vars>>

NextFmt == BuildWordLevel \/ JoinLines

SpecFmt == InitFmt /\ [][NextFmt]_vars

(***************************************************************************)
(* class TranscriptFormat(str, Enum)                                       *)
(***************************************************************************)
TranscriptFormat == {"json", "text", "webvtt", "srt"}

(***************************************************************************)
(* get_api_key: None when no key is configured ("if not API_KEY" holds for *)
(* None and for the empty string), the header when it equals the key, and  *)
(* HTTPException(401, "Invalid API Key") otherwise.                        *)
(***************************************************************************)
HTTPException(status_code, detail) ==
    [status |-> status_code, detail |-> detail, media_type |-> "application/json",
     body |-> [by |-> None, content |-> <<>>]]

\* Only a missing key (None) disables the check.
get_api_key_none_only(key, api_key_header) ==
    IF key = None THEN [raised |-> FALSE, value |-> None]
    ELSE IF api_key_header = key THEN [raised |-> FALSE, value |-> api_key_header]
         ELSE [raised |-> TRUE, value |-> HTTPException(401, "Invalid API Key")]

\* Any header that is present is accepted.
get_api_key_any_header(key, api_key_header) ==
    IF key \in {None, ""} THEN [raised |-> FALSE, value |-> None]
    ELSE IF api_key_header # None THEN [raised |-> FALSE, value |-> api_key_header]
         ELSE [raised |-> TRUE, value |-> HTTPException(401, "Invalid API Key")]

get_api_key(key, api_key_header) ==
    IF key \in {None, ""} THEN [raised |-> FALSE, value |-> None]
    ELSE IF api_key_header = key THEN [raised |-> FALSE, value |-> api_key_header]
         ELSE [raised |-> TRUE, value |-> HTTPException(401, "Invalid API Key")]

(***************************************************************************)
(* The dispatch tables of get_transcript.                                  *)
(***************************************************************************)
formatters(format) ==
    CASE format = "json" -> "JSONFormatter"
      [] format = "text" -> "TextFormatter"
      [] format = "webvtt" -> "WebVTTFormatter"
      [] format = "srt" -> "SRTFormatter"

\* SRT served with its own media type.
content_types_srt_subrip(format) ==
    CASE format = "json" -> "application/json"
      [] format = "text" -> "text/plain"
      [] format = "webvtt" -> "text/vtt"
      [] format = "srt" -> "application/x-subrip"

content_types(format) ==
    CASE format = "json" -> "application/json"
      [] format = "text" -> "text/plain"
      [] format = "webvtt" -> "text/vtt"
      [] format = "srt" -> "text/plain"

Response(content, media_type) ==
    [status |-> 200, detail |-> None, media_type |-> media_type, body |-> content]

(***************************************************************************)
(* What the collaborator and the library formatters may do.  An outcome is *)
(* a value or an exception with its class and its str().                   *)
(***************************************************************************)
Returned(v) == [kind |-> "ok", value |-> v, description |-> None]

Raised(class, description) == [kind |-> class, value |-> <<>>, description |-> description]

Failures ==
    { Raised("NoTranscriptFound", "No transcripts were found for any of the requested language codes"),
      Raised("VideoUnavailable", "The video is no longer available"),
      Raised("TranscriptsDisabled", "Subtitles are disabled for this video"),
      Raised("Exception", "Connection reset by peer") }

ServedTranscripts == {HelloTranscript}

get_transcript_outcomes == {Returned(t) : t \in ServedTranscripts} \cup Failures

TrackEn ==
    [language |-> "English", language_code |-> "en", is_generated |-> FALSE,
     is_translatable |-> TRUE, video_id |-> "any"]

TrackFr ==
    [language |-> "French (auto-generated)", language_code |-> "fr",
     is_generated |-> TRUE, is_translatable |-> FALSE, video_id |-> "any"]

list_transcripts_outcomes ==
    {Returned(l) : l \in {<<>>, <<TrackEn, TrackFr>>}} \cup Failures

format_transcript_outcomes ==
    {Returned(<<"formatted">>), Raised("KeyError", "'duration'")}

(***************************************************************************)
(* The try block of get_transcript after the retrieval call, lines 83-119: *)
(* the value returned or the exception raised.                             *)
(***************************************************************************)
get_transcript_body(format, retrieved, formatted) ==
    IF retrieved.kind # "ok" THEN retrieved
    ELSE IF format = "text"
         THEN LET res == WordLevel(retrieved.value, 1)
              IN  IF res.raised THEN Raised("ZeroDivisionError", "float division by zero")
                  ELSE Returned(Response([by |-> "word_level_transcript",
                                          content |-> Join(res.lines, 1)],
                                         content_types(format)))
         ELSE IF formatted.kind # "ok" THEN formatted
              ELSE Returned(Response([by |-> formatters(format),
                                      content |-> retrieved.value],
                                     content_types(format)))

(***************************************************************************)
(* The except clauses of get_transcript, lines 121-126.                    *)
(***************************************************************************)
\* Without the except VideoUnavailable clause.
get_transcript_except_no_unavailable(result) ==
    IF result.kind = "ok" THEN result.value
    ELSE IF result.kind = "NoTranscriptFound"
         THEN HTTPException(404, "Transcript not found for the specified language.")
         ELSE HTTPException(500, result.description)

get_transcript_except(result) ==
    IF result.kind = "ok" THEN result.value
    ELSE IF result.kind = "NoTranscriptFound"
         THEN HTTPException(404, "Transcript not found for the specified language.")
         ELSE IF result.kind = "VideoUnavailable"
              THEN HTTPException(404, "Video is unavailable.")
              ELSE HTTPException(500, result.description)

(***************************************************************************)
(* list_transcripts after the enumeration call, lines 138-158.             *)
(***************************************************************************)
available_transcripts(transcript_list) ==
    [k \in 1..Len(transcript_list) |->
        [language |-> transcript_list[k].language,
         language_code |-> transcript_list[k].language_code,
         is_generated |-> transcript_list[k].is_generated,
         is_translatable |-> transcript_list[k].is_translatable]]

\* Without the except TranscriptsDisabled clause.
list_transcripts_result_disabled_500(video_id, result) ==
    IF result.kind = "ok"
    THEN Response([by |-> "list_transcripts",
                   content |-> <<[video_id |-> video_id,
                                  available_transcripts |->
                                      available_transcripts(result.value)]>>],
                  "application/json")
    ELSE IF result.kind = "VideoUnavailable"
         THEN HTTPException(404, "Video is unavailable.")
         ELSE HTTPException(500, result.description)

list_transcripts_result(video_id, result) ==
    IF result.kind = "ok"
    THEN Response([by |-> "list_transcripts",
                   content |-> <<[video_id |-> video_id,
                                  available_transcripts |->
                                      available_transcripts(result.value)]>>],
                  "application/json")
    ELSE IF result.kind = "TranscriptsDisabled"
         THEN HTTPException(404, "Transcripts are disabled for this video.")
         ELSE IF result.kind = "VideoUnavailable"
              THEN HTTPException(404, "Video is unavailable.")
              ELSE HTTPException(500, result.description)

(***************************************************************************)
(* The server.  One event loop runs the coroutines: loop is the request    *)
(* whose task holds it, 0 when it is free.  A task gives the loop back     *)
(* only at an await that suspends or when it ends.                         *)
(***************************************************************************)
Headers == {None, "k1", "k2"}

ApiKeys == {None, "", "k1"}

\* The requests ask for different videos.
Videos == [r \in Requests |-> <<"video", r>>]

Init ==
    /\ API_KEY \in ApiKeys
    /\ req = [r \in Requests |-> IdleRequest]
    /\ loop = 0
    /\ FmtIdle

Receive(r) ==
    /\ req[r].pc = "idle"
    /\ \A o \in Requests : o < r => req[o].pc # "idle"
    /\ \E endpoint \in {"/transcript", "/transcripts"}, header \in Headers,
          format \in TranscriptFormat :
          /\ endpoint = "/transcripts" => format = "json"
          /\ req' = [req EXCEPT ![r] =
                        [pc |-> "received", endpoint |-> endpoint, header |-> header,
                         video_id |-> Videos[r],
                         format |-> IF endpoint = "/transcript" THEN format ELSE None,
                         calls |-> 0, retrieved |-> NoOutcome, raised |-> NoOutcome,
                         responses |-> <<>>]]
    /\ UNCHANGED <<API_KEY, loop, fmt_vars>>

\* The loop runs the request's task: the dependency get_api_key, then the
\* handler up to its call of YouTubeTranscriptApi.get_transcript(...) or
\* .list_transcripts(...).  Neither awaits, and the call is synchronous: the
\* task keeps the loop until the call returns.
\* The handler calling the collaborator a second time.
Dispatch_and_retry(r) ==
    /\ req[r].pc = "received"
    /\ loop = 0
    /\ LET api_key == get_api_key(API_KEY, req[r].header)
       IN  IF api_key.raised
           THEN /\ req' = [req EXCEPT ![r] =
                              [@ EXCEPT !.pc = "done",
                                        !.responses = Append(@, api_key.value)]]
                /\ loop' = 0
           ELSE /\ req' = [req EXCEPT ![r] =
                              [@ EXCEPT !.pc = "calling", !.calls = @ + 2]]
                /\ loop' = r
    /\ UNCHANGED <<API_KEY, fmt_vars>>

Dispatch(r) ==
    /\ req[r].pc = "received"
    /\ loop = 0
    /\ LET api_key == get_api_key(API_KEY, req[r].header)
       IN  IF api_key.raised
           THEN /\ req' = [req EXCEPT ![r] =
                              [@ EXCEPT !.pc = "done",
                                        !.responses = Append(@, api_key.value)]]
                /\ loop' = 0
           ELSE /\ req' = [req EXCEPT ![r] =
                              [@ EXCEPT !.pc = "calling", !.calls = @ + 1]]
                /\ loop' = r
    /\ UNCHANGED <<API_KEY, fmt_vars>>

get_transcript(r) ==
    /\ req[r].pc = "calling"
    /\ req[r].endpoint = "/transcript"
    /\ loop = r
    /\ \E retrieved \in get_transcript_outcomes, formatted \in format_transcript_outcomes :
          LET result == get_transcript_body(req[r].format, retrieved, formatted)
          IN  req' = [req EXCEPT ![r] =
                         [@ EXCEPT !.pc = "done",
                                   !.retrieved = retrieved,
                                   !.raised = IF result.kind = "ok" THEN NoOutcome
                                              ELSE result,
                                   !.responses = Append(@, get_transcript_except(result))]]
    /\ loop' = 0
    /\ UNCHANGED <<API_KEY, fmt_vars>>

list_transcripts(r) ==
    /\ req[r].pc = "calling"
    /\ req[r].endpoint = "/transcripts"
    /\ loop = r
    /\ \E listed \in list_transcripts_outcomes :
          req' = [req EXCEPT ![r] =
                     [@ EXCEPT !.pc = "done",
                               !.retrieved = listed,
                               !.raised = IF listed.kind = "ok" THEN NoOutcome ELSE listed,
                               !.responses = Append(@,
                                   list_transcripts_result(req[r].video_id, listed))]]
    /\ loop' = 0
    /\ UNCHANGED <<API_KEY, fmt_vars>>

Next ==
    \E r \in Requests :
        \/ Receive(r)
        \/ Dispatch(r)
        \/ get_transcript(r)
        \/ list_transcripts(r)

Spec == Init /\ [][Next]_vars


(***************************************************************************)
(* Vocabulary of the properties of the server.                             *)
(***************************************************************************)
Configured == API_KEY # None /\ API_KEY # ""

Handled(r) == req[r].pc = "done" /\ req[r].calls > 0

Status(r) == req[r].responses[1].status

Detail(r) == req[r].responses[1].detail

(***************************************************************************)
(* C1: with a credential configured, a request without the X-API-Key       *)
(* header or with another value than the credential ends with 401          *)
(* "Invalid API Key", and the collaborator is never called for it.         *)
(***************************************************************************)
C1_RejectedBeforeRetrieval ==
    Configured =>
        \A r \in Requests :
            (req[r].pc # "idle" /\ req[r].header # API_KEY) =>
                /\ req[r].calls = 0
                /\ req[r].pc \in {"received", "done"}
                /\ loop # r
                /\ req[r].pc = "done" =>
                      /\ Len(req[r].responses) = 1
                      /\ Status(r) = 401
                      /\ Detail(r) = "Invalid API Key"

C1_Witness ==
    /\ Configured
    /\ \E a, b \in Requests :
          /\ req[a].pc = "done" /\ req[a].header = None /\ Status(a) = 401
          /\ req[b].pc = "done" /\ req[b].header = "k2" /\ Status(b) = 401
          /\ req[a].endpoint = "/transcript" /\ req[b].endpoint = "/transcripts"

(***************************************************************************)
(* C2: with no credential configured the check is a no-op: whatever the    *)
(* header, no request is answered 401 and each goes on to the retrieval    *)
(* call.                                                                   *)
(***************************************************************************)
C2_OpenAccess ==
    ~Configured =>
        \A r \in Requests :
            /\ \A k \in 1..Len(req[r].responses) : req[r].responses[k].status # 401
            /\ req[r].pc = "done" => req[r].calls = 1
            /\ req[r].pc = "calling" => req[r].calls = 1

C2_Witness ==
    /\ API_KEY = None
    /\ \E a, b \in Requests :
          /\ Handled(a) /\ req[a].header = None /\ Status(a) = 200
          /\ Handled(b) /\ req[b].header = "k2" /\ Status(b) = 200

(***************************************************************************)
(* C3 as stated: on /transcript NoTranscriptFound gives 404 "Transcript    *)
(* not found for the specified language", VideoUnavailable gives 404       *)
(* "Video is unavailable", every other failure gives 500 with the          *)
(* failure's description.                                                  *)
(***************************************************************************)
C3_AsStated ==
    \A r \in Requests :
        (Handled(r) /\ req[r].endpoint = "/transcript") =>
            /\ Len(req[r].responses) = 1
            /\ req[r].raised.kind = "NoTranscriptFound" =>
                  /\ Status(r) = 404
                  /\ Detail(r) = "Transcript not found for the specified language"
            /\ req[r].raised.kind = "VideoUnavailable" =>
                  Status(r) = 404 /\ Detail(r) = "Video is unavailable"
            /\ req[r].raised.kind \notin {None, "NoTranscriptFound", "VideoUnavailable"} =>
                  Status(r) = 500 /\ Detail(r) = req[r].raised.description

(***************************************************************************)
(* C3 amended: the same mapping, the two 404 details ending with a full    *)
(* stop: "Transcript not found for the specified language." and "Video is  *)
(* unavailable."; a failure of the retrieval or of the formatting always   *)
(* ends in exactly one of these errors.                                    *)
(***************************************************************************)
C3_FailureMapping ==
    \A r \in Requests :
        (Handled(r) /\ req[r].endpoint = "/transcript") =>
            /\ Len(req[r].responses) = 1
            /\ req[r].retrieved.kind # "ok" => req[r].raised = req[r].retrieved
            /\ req[r].raised.kind = None <=> Status(r) = 200
            /\ req[r].raised.kind = "NoTranscriptFound" =>
                  /\ Status(r) = 404
                  /\ Detail(r) = "Transcript not found for the specified language."
            /\ req[r].raised.kind = "VideoUnavailable" =>
                  Status(r) = 404 /\ Detail(r) = "Video is unavailable."
            /\ req[r].raised.kind \notin {None, "NoTranscriptFound", "VideoUnavailable"} =>
                  Status(r) = 500 /\ Detail(r) = req[r].raised.description

C3_Witness ==
    \E a, b \in Requests :
        /\ Handled(a) /\ req[a].endpoint = "/transcript"
        /\ req[a].raised.kind = "TranscriptsDisabled" /\ Status(a) = 500
        /\ Handled(b) /\ req[b].endpoint = "/transcript"
        /\ req[b].raised.kind = "VideoUnavailable" /\ Status(b) = 404

(***************************************************************************)
(* C4: on /transcripts TranscriptsDisabled gives 404 "Transcripts are      *)
(* disabled for this video.", VideoUnavailable gives 404, every other      *)
(* failure gives 500 with its description; on success the response holds   *)
(* the request's video_id and one entry per enumerated track, in order.    *)
(***************************************************************************)
C4_ListMapping ==
    \A r \in Requests :
        (Handled(r) /\ req[r].endpoint = "/transcripts") =>
            /\ Len(req[r].responses) = 1
            /\ req[r].raised = (IF req[r].retrieved.kind = "ok" THEN NoOutcome
                                ELSE req[r].retrieved)
            /\ req[r].raised.kind = "TranscriptsDisabled" =>
                  /\ Status(r) = 404
                  /\ Detail(r) = "Transcripts are disabled for this video."
            /\ req[r].raised.kind = "VideoUnavailable" => Status(r) = 404
            /\ req[r].raised.kind \notin {None, "TranscriptsDisabled", "VideoUnavailable"} =>
                  Status(r) = 500 /\ Detail(r) = req[r].raised.description
            /\ req[r].raised.kind = None =>
                  /\ Status(r) = 200
                  /\ Len(req[r].responses[1].body.content) = 1
                  /\ LET body == req[r].responses[1].body.content[1]
                         tracks == req[r].retrieved.value
                     IN  /\ DOMAIN body = {"video_id", "available_transcripts"}
                         /\ body.video_id = Videos[r]
                         /\ Len(body.available_transcripts) = Len(tracks)
                         /\ \A k \in 1..Len(tracks) :
                               body.available_transcripts[k] =
                                   [language |-> tracks[k].language,
                                    language_code |-> tracks[k].language_code,
                                    is_generated |-> tracks[k].is_generated,
                                    is_translatable |-> tracks[k].is_translatable]

C4_Witness ==
    \E a, b \in Requests :
        /\ Handled(a) /\ req[a].endpoint = "/transcripts"
        /\ req[a].raised.kind = "TranscriptsDisabled" /\ Status(a) = 404
        /\ Handled(b) /\ req[b].endpoint = "/transcripts"
        /\ req[b].retrieved.kind = "ok" /\ Len(req[b].retrieved.value) = 2
        /\ Status(b) = 200

(***************************************************************************)
(* C5: while one request's retrieval call has not returned, a sibling      *)
(* request that has arrived can take its next step.                        *)
(***************************************************************************)
C5_SiblingsNotBlocked ==
    \A a, b \in Requests :
        (a # b /\ req[a].pc = "calling" /\ req[b].pc = "received") =>
            ENABLED Dispatch(b)

(***************************************************************************)
(* C6: a request calls the collaborator at most once and ends in exactly   *)
(* one outcome, the whole success response or one HTTP error; a failure of *)
(* the collaborator is that error at once, with no second call and no      *)
(* partial body.                                                           *)
(***************************************************************************)
C6_OneCallOneOutcome ==
    \A r \in Requests :
        /\ req[r].calls <= 1
        /\ Len(req[r].responses) = (IF req[r].pc = "done" THEN 1 ELSE 0)
        /\ req[r].pc = "done" =>
              /\ Status(r) \in {200, 401, 404, 500}
              /\ Status(r) = 200 <=> req[r].responses[1].body.by # None
              /\ Status(r) # 200 =>
                    /\ req[r].responses[1].body.content = <<>>
                    /\ Detail(r) # None
              /\ req[r].retrieved.kind \notin {None, "ok"} =>
                    req[r].calls = 1 /\ Status(r) \in {404, 500}

C6_Witness ==
    \E a, b \in Requests :
        /\ req[a].pc = "done" /\ req[a].retrieved.kind = "Exception"
        /\ req[a].calls = 1 /\ Status(a) = 500
        /\ req[b].pc = "done" /\ req[b].retrieved.kind = "ok"
        /\ req[b].calls = 1 /\ Status(b) = 200

(***************************************************************************)
(* C9: a successful /transcript response has the content type of its       *)
(* format (json application/json, text text/plain, webvtt text/vtt, srt    *)
(* text/plain); its body is the per-word output exactly when the format is *)
(* text, and the output of the format's own formatter otherwise.           *)
(***************************************************************************)
C9_ContentTypeAndBody ==
    \A r \in Requests :
        (Handled(r) /\ req[r].endpoint = "/transcript" /\ Status(r) = 200) =>
            LET resp == req[r].responses[1]
                f == req[r].format
            IN  /\ f = "json" => resp.media_type = "application/json"
                /\ f = "text" => resp.media_type = "text/plain"
                /\ f = "webvtt" => resp.media_type = "text/vtt"
                /\ f = "srt" => resp.media_type = "text/plain"
                /\ f = "text" <=> resp.body.by = "word_level_transcript"
                /\ f = "text" =>
                      resp.body.content = Join(WordLevel(req[r].retrieved.value, 1).lines, 1)
                /\ f = "json" => resp.body.by = "JSONFormatter"
                /\ f = "webvtt" => resp.body.by = "WebVTTFormatter"
                /\ f = "srt" => resp.body.by = "SRTFormatter"
                /\ f # "text" => resp.body.content = req[r].retrieved.value

C9_Witness ==
    \E a, b \in Requests :
        /\ Handled(a) /\ req[a].format = "srt" /\ Status(a) = 200
        /\ req[a].responses[1].media_type = "text/plain"
        /\ Handled(b) /\ req[b].format = "text" /\ Status(b) = 200
        /\ req[b].responses[1].body.content = HelloOutput

(***************************************************************************)
(* Vocabulary of the properties of the per-word output.                    *)
(***************************************************************************)
Duration0(segment) ==
    IF "duration" \in DOMAIN segment THEN segment["duration"] ELSE 0

\* The words of a text, as the maximal runs of non-whitespace characters.
WordStarts(text) ==
    { p \in 1..Len(text) :
        text[p] \notin Whitespace /\ (p = 1 \/ text[p - 1] \in Whitespace) }

WordEnd(text, p) ==
    CHOOSE q \in p..Len(text) :
        /\ \A o \in p..q : text[o] \notin Whitespace
        /\ (q = Len(text) \/ text[q + 1] \in Whitespace)

WordsOf(text) ==
    LET starts == WordStarts(text)
        nth(k) == CHOOSE p \in starts :
                      Cardinality({o \in starts : o < p}) = k - 1
    IN  [k \in 1..Cardinality(starts) |-> SubSeq(text, nth(k), WordEnd(text, nth(k)))]

IsBlank(text) == \A p \in 1..Len(text) : text[p] \in Whitespace

\* One entry per word of the transcript, in segment order then word order.
RECURSIVE EntriesFrom(_, _)
EntriesFrom(t, k) ==
    IF k > Len(t) THEN <<>>
    ELSE LET ws == WordsOf(t[k]["text"])
         IN  [i \in 1..Len(ws) |->
                 [seg |-> k, i |-> i - 1, n |-> Len(ws), word |-> ws[i]]]
             \o EntriesFrom(t, k + 1)

DigitVal(c) ==
    CASE c = "0" -> 0 [] c = "1" -> 1 [] c = "2" -> 2 [] c = "3" -> 3
      [] c = "4" -> 4 [] c = "5" -> 5 [] c = "6" -> 6 [] c = "7" -> 7
      [] c = "8" -> 8 [] c = "9" -> 9 [] OTHER -> -1

AllDigits(str) == str # <<>> /\ \A p \in 1..Len(str) : DigitVal(str[p]) >= 0

RECURSIVE NatVal(_)
NatVal(str) ==
    IF str = <<>> THEN 0
    ELSE 10 * NatVal(SubSeq(str, 1, Len(str) - 1)) + DigitVal(str[Len(str)])

\* The number a numeral denotes, and whether the numeral is a decimal padded
\* with zeros to w characters and no further.
NumVal(str) ==
    IF str # <<>> /\ str[1] = "-" THEN 0 - NatVal(Tail(str)) ELSE NatVal(str)

IsPadded(str, w) ==
    LET neg == str # <<>> /\ str[1] = "-"
        digits == IF neg THEN Tail(str) ELSE str
    IN  /\ AllDigits(digits)
        /\ neg => NatVal(digits) > 0
        /\ Len(str) >= w
        /\ Len(str) > w => digits[1] # "0"

\* line is "[MM:SS.mmm] word" for the i-th of the n words of segment sg, with
\* word_time = start + i * (duration / n) = num / n milliseconds, MM the floor
\* of word_time / 60 s, SS the floor of word_time mod 60 s and mmm the floor
\* of the milliseconds of word_time mod 1 s.
IsWordLine(line, sg, e) ==
    LET num == sg["start"] * e.n + e.i * Duration0(sg)
        colons == {p \in 1..Len(line) : line[p] = ":"}
    IN  /\ colons # {}
        /\ LET c == CHOOSE p \in colons : \A o \in colons : p <= o
               mm == SubSeq(line, 2, c - 1)
               ss == SubSeq(line, c + 1, c + 2)
               ms == SubSeq(line, c + 4, c + 6)
               MM == NumVal(mm)
               SS == NumVal(ss)
               mmm == NumVal(ms)
           IN  /\ Len(line) = c + 8 + Len(e.word)
               /\ line[1] = "[" /\ line[c + 3] = "." /\ line[c + 7] = "]"
               /\ line[c + 8] = " "
               /\ SubSeq(line, c + 9, Len(line)) = e.word
               /\ IsPadded(mm, 2) /\ IsPadded(ss, 2) /\ IsPadded(ms, 3)
               /\ SS \in 0..59 /\ mmm \in 0..999
               /\ MM * 60000 * e.n <= num
               /\ num < (MM + 1) * 60000 * e.n
               /\ (MM * 60 + SS) * 1000 * e.n <= num
               /\ num < (MM * 60 + SS + 1) * 1000 * e.n
               /\ ((MM * 60 + SS) * 1000 + mmm) * e.n <= num
               /\ num < ((MM * 60 + SS) * 1000 + mmm + 1) * e.n

\* body is the lines joined by newline characters.
RECURSIVE IsJoined(_, _, _)
IsJoined(body, lines, k) ==
    IF k > Len(lines) THEN body = <<>>
    ELSE /\ Len(body) >= Len(lines[k])
         /\ SubSeq(body, 1, Len(lines[k])) = lines[k]
         /\ IF k = Len(lines) THEN Len(body) = Len(lines[k])
            ELSE /\ Len(body) > Len(lines[k])
                 /\ body[Len(lines[k]) + 1] = "\n"
                 /\ IsJoined(SubSeq(body, Len(lines[k]) + 2, Len(body)), lines, k + 1)

RemoveAt(t, k) == SubSeq(t, 1, k - 1) \o SubSeq(t, k + 1, Len(t))

RECURSIVE WordCount(_, _)
WordCount(t, k) ==
    IF k > Len(t) THEN 0
    ELSE Cardinality(WordStarts(t[k]["text"])) + WordCount(t, k + 1)

(***************************************************************************)
(* C8: a segment whose text is empty or only whitespace contributes no     *)
(* line and raises no division error, wherever it stands in the sequence;  *)
(* the lines are those of the transcript without that segment.             *)
(***************************************************************************)
C8_BlankSegmentNoLines ==
    /\ fmt_pc # "raised"
    /\ fmt_pc \in {"built", "joined"} =>
          /\ Len(word_level_transcript) = WordCount(transcript, 1)
          /\ \A k \in 1..Len(transcript) :
                IsBlank(transcript[k]["text"]) =>
                    LET without == WordLevel(RemoveAt(transcript, k), 1)
                    IN  /\ ~without.raised
                        /\ word_level_transcript = without.lines

C8_Witness ==
    /\ fmt_pc = "joined"
    /\ Len(transcript) = MaxSegments
    /\ IsBlank(transcript[1]["text"])
    /\ "duration" \in DOMAIN transcript[1] /\ transcript[1]["duration"] = 2000
    /\ Len(word_level_transcript) >= 2

(***************************************************************************)
(* C10: for a segment with at least one word and duration >= 0, each       *)
(* word's time lies between start and start + duration (below it when      *)
(* duration > 0), the times do not decrease in word order, and the first   *)
(* word's time is the start; without a duration field the duration is 0    *)
(* and every word carries the start.                                       *)
(***************************************************************************)
C10_WordTimeBounds ==
    fmt_pc \in {"built", "joined"} =>
        LET es == EntriesFrom(transcript, 1)
        IN  /\ Len(word_times) = Len(es)
            /\ \A k \in 1..Len(es) :
                  LET sg == transcript[es[k].seg]
                      wt == word_times[k]
                      dur == Duration0(sg)
                  IN  /\ wt.den > 0
                      /\ "duration" \notin DOMAIN sg => wt.num = sg["start"] * wt.den
                      /\ dur >= 0 =>
                            /\ sg["start"] * wt.den <= wt.num
                            /\ wt.num <= (sg["start"] + dur) * wt.den
                            /\ dur > 0 => wt.num < (sg["start"] + dur) * wt.den
                            /\ es[k].i = 0 => wt.num = sg["start"] * wt.den
                            /\ es[k].i > 0 =>
                                  word_times[k - 1].num * wt.den
                                      <= wt.num * word_times[k - 1].den

C10_Witness ==
    /\ fmt_pc = "built"
    /\ Len(transcript) = 2
    /\ "duration" \in DOMAIN transcript[1] /\ transcript[1]["duration"] = 2000
    /\ Cardinality(WordStarts(transcript[1]["text"])) = 3
    /\ "duration" \notin DOMAIN transcript[2]
    /\ Cardinality(WordStarts(transcript[2]["text"])) = 2
    /\ Len(word_times) = 5
    /\ word_times[3].num > word_times[2].num

====
